---------------------------- MODULE Spec2Model ----------------------------
(***************************************************************************)
(* KRPC (BEP 0005) codec of rust-dht: src/bt/protocol.rs and src/utils.rs. *)
(*                                                                         *)
(* The codec is a set of pure functions.  Each one is an operator below,   *)
(* computed step by step as the Rust code computes it, and the state       *)
(* machine applies them to inputs drawn from bounded sets.                 *)
(*                                                                         *)
(* Representation.                                                         *)
(*   byte          an integer 0..255                                        *)
(*   Vec<u8>, String, ByteString   a sequence of bytes (a String is its    *)
(*                 UTF-8 bytes, which is what ByteString::from_str and     *)
(*                 String::to_bencode copy)                                *)
(*   num::BigUint  a little-endian sequence of 16-bit limbs without        *)
(*                 trailing zero limb; the value is                        *)
(*                 SUM limb[i] * 65536^(i-1).  Zero is << >>.              *)
(*   Bencode       [tag |-> "ByteString"|"Number"|"List"|"Dict", v |-> _]  *)
(*   TreeMap       a function from its key set to the values               *)
(*   panic         [panic |-> TRUE, v |-> << >>] (assert!, unwrap, panic!) *)
(*   Option        [some |-> BOOLEAN, v |-> _]                             *)
(***************************************************************************)
EXTENDS Integers, Sequences, FiniteSets, TLC

VARIABLES pc, arg, wire, src, result

vars == <<pc, arg, wire, src, result>>

-----------------------------------------------------------------------------
(* Bounds of the model *)

\* ids of the input sets have at most MaxLimbs 16-bit limbs (11 limbs = 176 bits > 160)
MaxLimbs == 11
\* transaction ids have at most MaxTidLen bytes
MaxTidLen == 5
\* payload dictionaries have at most MaxFields caller fields
MaxFields == 2
\* received byte-strings have at most MaxWireLen bytes (26 is the compact node length)
MaxWireLen == 27

-----------------------------------------------------------------------------
(* Program constants *)

ID_BYTE_SIZE == 20
LimbBits == 16
LimbBase == 65536

RECURSIVE Pow2(_)
Pow2(n) == IF n = 0 THEN 1 ELSE 2 * Pow2(n - 1)

-----------------------------------------------------------------------------
(* Result wrappers *)

Ok(v) == [panic |-> FALSE, v |-> v]
Panic == [panic |-> TRUE, v |-> << >>]
Some(v) == [some |-> TRUE, v |-> v]
None == [some |-> FALSE, v |-> << >>]

-----------------------------------------------------------------------------
(* num::BigUint, the operations the codec uses *)

RECURSIVE Normalize(_)
Normalize(s) ==
    IF s = << >> THEN << >>
    ELSE IF s[Len(s)] = 0 THEN Normalize(SubSeq(s, 1, Len(s) - 1))
    ELSE s

RECURSIVE BitLen(_)
BitLen(x) == IF x = 0 THEN 0 ELSE 1 + BitLen(x \div 2)

RECURSIVE AndBits(_, _)
AndBits(x, y) ==
    IF x = 0 \/ y = 0 THEN 0
    ELSE (IF x % 2 = 1 /\ y % 2 = 1 THEN 1 ELSE 0) + 2 * AndBits(x \div 2, y \div 2)

\* FromPrimitive::from_u8 / from_int(0)
BigFromU8(b) == IF b = 0 THEN << >> ELSE <<b>>

\* BigUint::bits
BigBits(a) ==
    IF a = << >> THEN 0 ELSE LimbBits * (Len(a) - 1) + BitLen(a[Len(a)])

\* a & b
BigAnd(a, b) ==
    LET n == IF Len(a) < Len(b) THEN Len(a) ELSE Len(b)
    IN  Normalize([i \in 1..n |-> AndBits(a[i], b[i])])

\* a >> n, for 0 <= n < LimbBits
BigShr(a, n) ==
    LET lo == Pow2(n)
        hi == Pow2(LimbBits - n)
        nxt(i) == IF i < Len(a) THEN a[i + 1] ELSE 0
    IN  Normalize([i \in 1..Len(a) |-> (a[i] \div lo) + (nxt(i) % lo) * hi])

\* a << n
BigShl(a, n) ==
    LET q == n \div LimbBits
        m == Pow2(n % LimbBits)
        at(i) == IF i >= 1 /\ i <= Len(a) THEN a[i] ELSE 0
        up(i) == ((at(i) * m) % LimbBase) + ((at(i - 1) * m) \div LimbBase)
    IN  IF a = << >> THEN << >>
        ELSE Normalize([i \in 1..(q + Len(a) + 1) |->
                            IF i <= q THEN 0 ELSE up(i - q)])

RECURSIVE AddLimbs(_, _, _, _, _)
AddLimbs(a, b, i, carry, acc) ==
    LET at(s) == IF i <= Len(s) THEN s[i] ELSE 0
        t == at(a) + at(b) + carry
    IN  IF i > Len(a) /\ i > Len(b)
        THEN (IF carry = 0 THEN acc ELSE Append(acc, carry))
        ELSE AddLimbs(a, b, i + 1, t \div LimbBase, Append(acc, t % LimbBase))

\* a + b
BigAdd(a, b) == Normalize(AddLimbs(a, b, 1, 0, << >>))

\* ToPrimitive::to_u8
BigToU8(a) ==
    IF a = << >> THEN Some(0)
    ELSE IF Len(a) = 1 /\ a[1] <= 255 THEN Some(a[1])
    ELSE None

-----------------------------------------------------------------------------
(* Byte packing *)

\* the body of the loop of id_to_netbytes, from position i down to 1
RECURSIVE id_to_netbytes_loop(_, _, _)
id_to_netbytes_loop(id_c, i, res) ==
    IF i = 0 THEN Ok(res)
    ELSE LET mask == BigFromU8(255)
             part == BigAnd(id_c, mask)
             b == BigToU8(part)
         IN  IF ~b.some THEN Panic
             ELSE id_to_netbytes_loop(BigShr(id_c, 8), i - 1,
                                      [res EXCEPT ![i] = b.v])

\* mutant: the bytes are stored from the first position on (no .rev())
RECURSIVE id_to_netbytes_fwd_loop(_, _, _)
id_to_netbytes_fwd_loop(id_c, i, res) ==
    IF i > ID_BYTE_SIZE THEN Ok(res)
    ELSE LET part == BigAnd(id_c, BigFromU8(255))
             b == BigToU8(part)
         IN  IF ~b.some THEN Panic
             ELSE id_to_netbytes_fwd_loop(BigShr(id_c, 8), i + 1,
                                          [res EXCEPT ![i] = b.v])

id_to_netbytes_fwd(id) ==
    IF ~(BigBits(id) <= ID_BYTE_SIZE * 8) THEN Panic
    ELSE id_to_netbytes_fwd_loop(id, 1, [i \in 1..ID_BYTE_SIZE |-> 0])

\* mutant: the assertion on the bit length is missing
id_to_netbytes_unchecked(id) ==
    id_to_netbytes_loop(id, ID_BYTE_SIZE, [i \in 1..ID_BYTE_SIZE |-> 0])

id_to_netbytes(id) ==
    IF ~(BigBits(id) <= ID_BYTE_SIZE * 8) THEN Panic
    ELSE id_to_netbytes_loop(id, ID_BYTE_SIZE, [i \in 1..ID_BYTE_SIZE |-> 0])

\* the loop of id_from_netbytes, over bytes[i], bytes[i-1], ..., bytes[1]
RECURSIVE id_from_netbytes_loop(_, _, _, _)
id_from_netbytes_loop(bytes, i, shift, res) ==
    IF i = 0 THEN res
    ELSE LET val == BigFromU8(bytes[i])
         IN  id_from_netbytes_loop(bytes, i - 1, shift + 8,
                                   BigAdd(res, BigShl(val, shift)))

id_from_netbytes(bytes) ==
    id_from_netbytes_loop(bytes, Len(bytes), 0, BigFromU8(0))

\* mutant: the low byte of the port comes first
netaddr_to_netbytes_le(addr) ==
    IF addr.fam = "V4"
    THEN Ok(addr.ip \o <<AndBits(addr.port, 255) % 256>> \o <<(addr.port \div 256) % 256>>)
    ELSE Panic

netaddr_to_netbytes(addr) ==
    IF addr.fam = "V4"
    THEN Ok(addr.ip \o <<(addr.port \div 256) % 256>> \o <<AndBits(addr.port, 255) % 256>>)
    ELSE Panic

\* mutant: the port is read low byte first
netaddr_from_netbytes_le(bytes) ==
    IF Len(bytes) # 6 THEN Panic
    ELSE Ok([fam |-> "V4",
             ip |-> <<bytes[1], bytes[2], bytes[3], bytes[4]>>,
             port |-> (((bytes[6] * 256) % 65536) + bytes[5]) % 65536])

netaddr_from_netbytes(bytes) ==
    IF Len(bytes) # 6 THEN Panic
    ELSE Ok([fam |-> "V4",
             ip |-> <<bytes[1], bytes[2], bytes[3], bytes[4]>>,
             port |-> (((bytes[5] * 256) % 65536) + bytes[6]) % 65536])

\* Vec::slice(from, to): bytes from..to-1 (0-based), a panic when out of range
Slice(v, from, to) ==
    IF from <= to /\ to <= Len(v) THEN Ok(SubSeq(v, from + 1, to)) ELSE Panic

-----------------------------------------------------------------------------
(* Bencode values *)

ByteString(v) == [tag |-> "ByteString", v |-> v]
Number(n) == [tag |-> "Number", v |-> n]
List(l) == [tag |-> "List", v |-> l]
Dict(d) == [tag |-> "Dict", v |-> d]

EmptyMap == [k \in {} |-> << >>]

\* TreeMap::insert: the new value replaces the value of an existing key
MapInsert(d, k, v) == [x \in (DOMAIN d) \cup {k} |-> IF x = k THEN v ELSE d[x]]

-----------------------------------------------------------------------------
(* Node codec *)

Node_to_bencode(n) ==
    LET idb == id_to_netbytes(n.id)
    IN  IF idb.panic THEN Panic
        ELSE LET ab == netaddr_to_netbytes(n.address)
             IN  IF ab.panic THEN Panic
                 ELSE Ok(ByteString(idb.v \o ab.v))

\* mutant: the guard accepts every byte-string of at least 26 bytes
Node_from_bencode_atleast(b) ==
    IF b.tag = "ByteString" /\ Len(b.v) >= 26
    THEN LET s1 == Slice(b.v, 0, 20)
             s2 == Slice(b.v, 20, 26)
         IN  IF s1.panic \/ s2.panic THEN Panic
             ELSE LET a == netaddr_from_netbytes(s2.v)
                  IN  IF a.panic THEN Panic
                      ELSE Ok(Some([id |-> id_from_netbytes(s1.v),
                                    address |-> a.v]))
    ELSE Ok(None)

\* Ok(None), Ok(Some(node)), or Panic when a slice or the length assertion fails
Node_from_bencode(b) ==
    IF b.tag = "ByteString" /\ Len(b.v) = 26
    THEN LET s1 == Slice(b.v, 0, 20)
             s2 == Slice(b.v, 20, 26)
         IN  IF s1.panic \/ s2.panic THEN Panic
             ELSE LET a == netaddr_from_netbytes(s2.v)
                  IN  IF a.panic THEN Panic
                      ELSE Ok(Some([id |-> id_from_netbytes(s1.v),
                                    address |-> a.v]))
    ELSE Ok(None)

-----------------------------------------------------------------------------
(* Strings of the protocol, as their bytes *)

STR_tt == <<116, 116>>
STR_t == <<116>>
STR_y == <<121>>
STR_q == <<113>>
STR_r == <<114>>
STR_e == <<101>>
STR_id == <<105, 100>>

\* ByteString::from_str and String::to_bencode copy the bytes of the string
ByteString_from_str(s) == s
String_to_bencode(s) == ByteString(s)

\* i64::to_bencode
I64_to_bencode(n) == Number(n)

\* Vec<u8>::to_bencode is the bencode crate's generic implementation for
\* Vec<T>: a list of the elements' encodings, and a u8 encodes as a number.
\* (The byte-strings of the codec are built with bencode::ByteString(..).)
VecU8_to_bencode(v) == List([i \in 1..Len(v) |-> Number(v[i])])

-----------------------------------------------------------------------------
(* Package codec *)

Query(d) == [kind |-> "Query", fields |-> d, code |-> 0, msg |-> << >>]
Response(d) == [kind |-> "Response", fields |-> d, code |-> 0, msg |-> << >>]
Error(c, m) == [kind |-> "Error", fields |-> EmptyMap, code |-> c, msg |-> m]

\* d.iter().map(..).collect()
CollectFields(d) ==
    [k \in { ByteString_from_str(x) : x \in DOMAIN d } |-> VecU8_to_bencode(d[k])]

\* mutant: "id" is inserted first and the caller's fields after it
payload_dict_to_bencode_idfirst(self, d) ==
    LET collected == CollectFields(d)
        id == Node_to_bencode(self.sender)
        first == MapInsert(EmptyMap, ByteString_from_str(STR_id), id.v)
    IN  IF id.panic THEN Panic
        ELSE Ok(Dict([k \in (DOMAIN first) \cup (DOMAIN collected) |->
                         IF k \in DOMAIN collected THEN collected[k] ELSE first[k]]))

payload_dict_to_bencode(self, d) ==
    LET collected == CollectFields(d)
        id == Node_to_bencode(self.sender)
    IN  IF id.panic THEN Panic
        ELSE Ok(Dict(MapInsert(collected, ByteString_from_str(STR_id), id.v)))

\* mutant: the error list holds the message before the code
MatchPayload_swapped(self) ==
    CASE self.payload.kind = "Query" ->
             [typ |-> STR_q, payload |-> payload_dict_to_bencode(self, self.payload.fields)]
      [] self.payload.kind = "Response" ->
             [typ |-> STR_r, payload |-> payload_dict_to_bencode(self, self.payload.fields)]
      [] self.payload.kind = "Error" ->
             [typ |-> STR_e,
              payload |-> Ok(List(<<String_to_bencode(self.payload.msg),
                                    I64_to_bencode(self.payload.code)>>))]

\* let (typ, payload) = match self.payload { .. }
MatchPayload(self) ==
    CASE self.payload.kind = "Query" ->
             [typ |-> STR_q, payload |-> payload_dict_to_bencode(self, self.payload.fields)]
      [] self.payload.kind = "Response" ->
             [typ |-> STR_r, payload |-> payload_dict_to_bencode(self, self.payload.fields)]
      [] self.payload.kind = "Error" ->
             [typ |-> STR_e,
              payload |-> Ok(List(<<I64_to_bencode(self.payload.code),
                                    String_to_bencode(self.payload.msg)>>))]

Package_to_bencode(self) ==
    LET r1 == MapInsert(EmptyMap, ByteString_from_str(STR_tt),
                        ByteString(self.transaction_id))
        m == MatchPayload(self)
    IN  IF m.payload.panic THEN Panic
        ELSE LET r2 == MapInsert(r1, ByteString_from_str(STR_y), String_to_bencode(m.typ))
                 r3 == MapInsert(r2, ByteString_from_str(m.typ), m.payload.v)
             IN  Ok(Dict(r3))

-----------------------------------------------------------------------------
(* Decoding of a package (spec.md 4.3, Decode): the counterpart of         *)
(* Package_to_bencode, which this revision of the repository does not      *)
(* contain.                                                                *)

DecodeFields(nd) ==
    LET id == IF STR_id \in DOMAIN nd THEN Node_from_bencode(nd[STR_id]) ELSE Ok(None)
        rest == (DOMAIN nd) \ {STR_id}
    IN  IF id.panic THEN None
        ELSE IF ~id.v.some THEN None
        ELSE IF \E k \in rest : nd[k].tag # "ByteString" THEN None
        ELSE Some([sender |-> id.v.v, fields |-> [k \in rest |-> nd[k].v]])

DecodeError(l) ==
    IF Len(l) # 2 THEN None
    ELSE IF l[1].tag # "Number" \/ l[2].tag # "ByteString" THEN None
    ELSE Some(Error(l[1].v, l[2].v))

Package_from_bencode(b) ==
    IF b.tag # "Dict" THEN None
    ELSE LET d == b.v
             has(k, tag) == IF k \in DOMAIN d THEN d[k].tag = tag ELSE FALSE
         IN  IF ~has(STR_t, "ByteString") THEN None
             ELSE IF ~has(STR_y, "ByteString") THEN None
             ELSE LET y == d[STR_y].v
                      tid == d[STR_t].v
                  IN  IF y = STR_q \/ y = STR_r
                      THEN IF ~has(y, "Dict") THEN None
                           ELSE LET f == DecodeFields(d[y].v)
                                IN  IF ~f.some THEN None
                                    ELSE Some([transaction_id |-> tid,
                                               payload |-> IF y = STR_q
                                                           THEN Query(f.v.fields)
                                                           ELSE Response(f.v.fields),
                                               sender |-> f.v.sender])
                      ELSE IF y = STR_e
                      THEN IF ~has(y, "List") THEN None
                           ELSE LET e == DecodeError(d[y].v)
                                IN  IF ~e.some THEN None
                                    ELSE Some([transaction_id |-> tid,
                                               payload |-> e.v,
                                               sender |-> << >>])
                      ELSE None

-----------------------------------------------------------------------------
(* Input sets *)

LimbVals == {1, 42, 2571, 65535}
Fills == {0, 65535}

\* ids: a top limb, a fill below it and a lowest limb; up to MaxLimbs limbs
SampleIds ==
    { Normalize([i \in 1..n |-> IF i = n THEN t ELSE IF i = 1 THEN l ELSE f]) :
        n \in 0..MaxLimbs, t \in LimbVals, f \in Fills, l \in {0, 42, 65535} }
    \cup { <<3085, 2571>> }

V4(a, b, c, d, p) == [fam |-> "V4", ip |-> <<a, b, c, d>>, port |-> p]

SampleAddrs ==
    { V4(127, 0, 0, 1, 8008), V4(0, 0, 0, 0, 0), V4(255, 255, 255, 255, 65535),
      V4(10, 1, 2, 3, 80), V4(192, 168, 0, 1, 256),
      [fam |-> "V6", ip |-> <<0, 0, 0, 0, 0, 0, 0, 1>>, port |-> 8008] }

SampleNodes == { [id |-> i, address |-> a] : i \in SampleIds, a \in SampleAddrs }

WireFills == {0, 42, 255}

\* received byte-strings of every length up to MaxWireLen
SampleWireBytes ==
    { ByteString([i \in 1..n |-> IF i % 2 = 0 THEN f ELSE (f + i) % 256]) :
        n \in 0..MaxWireLen, f \in WireFills }

\* received values that are not byte-strings
SampleWireOther ==
    << Number(42), Number(26), List(<< >>),
       List(<<ByteString([i \in 1..26 |-> 0])>>),
       Dict(EmptyMap),
       Dict(MapInsert(EmptyMap, <<105, 100>>, ByteString([i \in 1..26 |-> 0]))) >>

\* transaction ids of every length up to MaxTidLen
SampleTids ==
    { [i \in 1..n |-> <<1, 2, 254, 255, 0>>[((i - 1) % 5) + 1]] : n \in 0..MaxTidLen }

FieldKeys == { STR_id, <<97>>, STR_t }
FieldVals == { << >>, <<1, 255>> }

\* payload dictionaries with at most MaxFields entries
SampleFields ==
    UNION { [S -> FieldVals] : S \in { T \in SUBSET FieldKeys : Cardinality(T) <= MaxFields } }

SamplePayloads ==
    { Query(d) : d \in SampleFields } \cup { Response(d) : d \in SampleFields }
    \cup { Error(c, m) : c \in {10, -1}, m \in { <<101, 114, 114, 111, 114>>, << >> } }

\* senders: ids 42, 2^160 - 1 and 2^160, at an IPv4 and at an IPv6 address
SampleSenders ==
    { [id |-> i, address |-> a] :
        i \in { <<42>>, [k \in 1..10 |-> 65535], [k \in 1..11 |-> IF k = 11 THEN 1 ELSE 0] },
        a \in { V4(127, 0, 0, 1, 8008),
                [fam |-> "V6", ip |-> <<0, 0, 0, 0, 0, 0, 0, 1>>, port |-> 8008] } }

SamplePackages ==
    { [transaction_id |-> t, payload |-> p, sender |-> n] :
        t \in SampleTids, p \in SamplePayloads, n \in SampleSenders }

-----------------------------------------------------------------------------
(* State machine.  A behaviour is one use of the codec: a value is encoded *)
(* and may then be decoded again, or a value received from a peer is       *)
(* decoded.  The calls are independent of each other, so each behaviour    *)
(* starts from the initial state.                                          *)

Nil == << >>

Init ==
    /\ pc = "init"
    /\ arg = Nil
    /\ wire = Panic
    /\ src = "none"
    /\ result = Nil

\* a call of id_to_netbytes
IdToNetbytes ==
    \E id \in SampleIds :
        /\ pc = "init"
        /\ pc' = "id_to_netbytes"
        /\ arg' = id
        /\ result' = id_to_netbytes(id)
        /\ wire' = Panic
        /\ src' = "none"

\* a call of Node::to_bencode
NodeToBencode ==
    \E n \in SampleNodes :
        /\ pc = "init"
        /\ pc' = "node_to_bencode"
        /\ arg' = n
        /\ wire' = Node_to_bencode(n)
        /\ src' = "node_to_bencode"
        /\ result' = Nil

ReceiveValue(b) ==
    /\ pc = "init"
    /\ pc' = "received"
    /\ arg' = Nil
    /\ wire' = Ok(b)
    /\ src' = "received"
    /\ result' = Nil

\* a value arrives from a peer
Receive ==
    \/ \E b \in SampleWireBytes : ReceiveValue(b)
    \/ \E i \in 1..Len(SampleWireOther) : ReceiveValue(SampleWireOther[i])

\* a call of Package::to_bencode
PackageToBencode ==
    \E p \in SamplePackages :
        /\ pc = "init"
        /\ pc' = "package_to_bencode"
        /\ arg' = p
        /\ wire' = Package_to_bencode(p)
        /\ src' = "package_to_bencode"
        /\ result' = Nil

\* a call of Node::from_bencode on the value at hand
NodeFromBencode ==
    /\ pc \in {"node_to_bencode", "package_to_bencode", "received"}
    /\ ~wire.panic
    /\ pc' = "node_from_bencode"
    /\ result' = Node_from_bencode(wire.v)
    /\ UNCHANGED <<arg, wire, src>>

\* the package decoder applied to the value at hand
PackageFromBencode ==
    /\ pc \in {"node_to_bencode", "package_to_bencode", "received"}
    /\ ~wire.panic
    /\ pc' = "package_from_bencode"
    /\ result' = Ok(Package_from_bencode(wire.v))
    /\ UNCHANGED <<arg, wire, src>>

Next ==
    \/ IdToNetbytes
    \/ NodeToBencode
    \/ PackageToBencode
    \/ Receive
    \/ NodeFromBencode
    \/ PackageFromBencode

Spec == Init /\ [][Next]_vars


-----------------------------------------------------------------------------
(* Reference notions used by the properties *)

\* byte j (0 = least significant) of the number a BigUint stands for:
\* (id div 256^j) mod 256
ByteOf(id, j) ==
    LET l == (j \div 2) + 1
    IN  IF l > Len(id) THEN 0
        ELSE (id[l] \div (IF j % 2 = 0 THEN 1 ELSE 256)) % 256

\* id < 2^160: at most ten 16-bit limbs
Below2_160(id) == Len(id) <= 10

ValidNode(n) == Below2_160(n.id) /\ n.address.fam = "V4"

Zeros(n) == [i \in 1..n |-> 0]

Id2_160 == [k \in 1..11 |-> IF k = 11 THEN 1 ELSE 0]
IdMax == [k \in 1..10 |-> 65535]

IsBytes(b, v) == b.tag = "ByteString" /\ b.v = v

\* the nested map of an encoded Query or Response
Nested == wire.v.v[IF arg.payload.kind = "Query" THEN STR_q ELSE STR_r].v

-----------------------------------------------------------------------------
(* Properties *)

\* C1: decoding the encoding of a node with an IPv4 address and an id below
\* 2^160 succeeds and gives a node with the same id and the same address.
NodeRoundTrip ==
    (pc = "node_from_bencode" /\ src = "node_to_bencode" /\ ValidNode(arg))
        => /\ ~result.panic
           /\ result.v.some
           /\ result.v.v.id = arg.id
           /\ result.v.v.address.ip = arg.address.ip
           /\ result.v.v.address.port = arg.address.port
           /\ result.v.v.address = arg.address

NodeRoundTripWitness ==
    /\ pc = "node_from_bencode" /\ src = "node_to_bencode"
    /\ arg.id = IdMax /\ arg.address = V4(255, 255, 255, 255, 65535)
    /\ ~result.panic /\ result.v.some /\ result.v.v = arg

\* C2: the map produced by Package::to_bencode has the key "t", whose value
\* is the byte-string of the package's transaction id.
TransactionIdUnderT ==
    (pc = "package_to_bencode" /\ ~wire.panic)
        => /\ wire.v.tag = "Dict"
           /\ STR_t \in DOMAIN wire.v.v
           /\ IsBytes(wire.v.v[STR_t], arg.transaction_id)

\* C3: a Query (Response) of a valid sender encodes to a map with "y" = "q"
\* ("r") whose key "q" ("r") maps to a map holding every caller field with its
\* byte-string value unchanged and "id" = the encoded sender; with no caller
\* field that map is exactly {"id": encoded sender}.
QueryResponseEncoding ==
    (pc = "package_to_bencode" /\ arg.payload.kind \in {"Query", "Response"}
        /\ ValidNode(arg.sender))
        => LET typ == IF arg.payload.kind = "Query" THEN STR_q ELSE STR_r
               f == arg.payload.fields
           IN  /\ ~wire.panic
               /\ wire.v.tag = "Dict"
               /\ STR_y \in DOMAIN wire.v.v
               /\ IsBytes(wire.v.v[STR_y], typ)
               /\ typ \in DOMAIN wire.v.v
               /\ wire.v.v[typ].tag = "Dict"
               /\ STR_id \in DOMAIN Nested
               /\ Nested[STR_id] = Node_to_bencode(arg.sender).v
               /\ \A k \in DOMAIN f : k \in DOMAIN Nested /\ IsBytes(Nested[k], f[k])
               /\ (DOMAIN f = {} => DOMAIN Nested = {STR_id})

\* C4: an Error(code, message) encodes to a map with "y" = "e" whose key "e"
\* maps to the list [code, message]; the map has no "id", "q" or "r" key and
\* no nested map, so the sender is not in it.
ErrorEncoding ==
    (pc = "package_to_bencode" /\ arg.payload.kind = "Error")
        => /\ ~wire.panic
           /\ wire.v.tag = "Dict"
           /\ STR_y \in DOMAIN wire.v.v
           /\ IsBytes(wire.v.v[STR_y], STR_e)
           /\ STR_e \in DOMAIN wire.v.v
           /\ wire.v.v[STR_e].tag = "List"
           /\ Len(wire.v.v[STR_e].v) = 2
           /\ wire.v.v[STR_e].v[1].tag = "Number"
           /\ wire.v.v[STR_e].v[1].v = arg.payload.code
           /\ IsBytes(wire.v.v[STR_e].v[2], arg.payload.msg)
           /\ (DOMAIN wire.v.v) \cap {STR_id, STR_q, STR_r} = {}
           /\ \A k \in DOMAIN wire.v.v : wire.v.v[k].tag # "Dict"

ErrorEncodingWitness ==
    /\ pc = "package_to_bencode" /\ arg.payload.kind = "Error"
    /\ arg.payload.code = 10 /\ arg.payload.msg = <<101, 114, 114, 111, 114>>
    /\ arg.sender.id = Id2_160 /\ arg.sender.address.fam = "V6"
    /\ ~wire.panic
    /\ wire.v.v[STR_e] = List(<<Number(10), ByteString(<<101, 114, 114, 111, 114>>)>>)

\* C5: Node::from_bencode never faults; it returns Some exactly for the
\* byte-strings of length 26 and None for every other value.
NodeDecodeTotal ==
    pc = "node_from_bencode"
        => /\ ~result.panic
           /\ result.v.some <=>
                (IF wire.v.tag = "ByteString" THEN Len(wire.v.v) = 26 ELSE FALSE)

NodeDecodeTotalWitness ==
    /\ pc = "node_from_bencode" /\ src = "received"
    /\ wire.v.tag = "ByteString" /\ Len(wire.v.v) = 27
    /\ ~result.panic /\ ~result.v.some

\* C6: decoding the encoding of a package reproduces its transaction id, its
\* payload kind and its fields (without "id"), or its error code and message.
PackageRoundTrip ==
    (pc = "package_from_bencode" /\ src = "package_to_bencode")
        => /\ result.v.some
           /\ result.v.v.transaction_id = arg.transaction_id
           /\ result.v.v.payload.kind = arg.payload.kind
           /\ result.v.v.payload.code = arg.payload.code
           /\ result.v.v.payload.msg = arg.payload.msg
           /\ DOMAIN result.v.v.payload.fields = (DOMAIN arg.payload.fields) \ {STR_id}
           /\ \A k \in DOMAIN result.v.v.payload.fields :
                  result.v.v.payload.fields[k] = arg.payload.fields[k]

\* C7: for an id below 2^160, id_to_netbytes returns 20 bytes, byte i being
\* (id div 256^(19-i)) mod 256; 0 gives 20 zero bytes, 2^160-1 gives 20 bytes
\* 0xFF, 0x0A0B0C0D gives 16 zero bytes and 0x0A, 0x0B, 0x0C, 0x0D.
IdBytesBigEndian ==
    (pc = "id_to_netbytes" /\ Below2_160(arg))
        => /\ ~result.panic
           /\ Len(result.v) = 20
           /\ \A i \in 0..19 : result.v[i + 1] = ByteOf(arg, 19 - i)
           /\ (arg = << >> => result.v = Zeros(20))
           /\ (arg = IdMax => result.v = [i \in 1..20 |-> 255])
           /\ (arg = <<3085, 2571>> => result.v = Zeros(16) \o <<10, 11, 12, 13>>)

IdBytesBigEndianWitness ==
    /\ pc = "id_to_netbytes" /\ arg = <<3085, 2571>>
    /\ ~result.panic /\ result.v = Zeros(16) \o <<10, 11, 12, 13>>

\* C8: a node with an IPv4 address and an id below 2^160 encodes to a
\* byte-string of 26 bytes: the 20 id bytes, the four octets, the high byte of
\* the port and its low byte; id 42 at 127.0.0.1:8008 gives 19 zero bytes and
\* 42, 127, 0, 0, 1, 31, 72.
NodeEncoding ==
    (pc = "node_to_bencode" /\ ValidNode(arg))
        => /\ ~wire.panic
           /\ wire.v.tag = "ByteString"
           /\ Len(wire.v.v) = 26
           /\ \A i \in 0..19 : wire.v.v[i + 1] = ByteOf(arg.id, 19 - i)
           /\ \A i \in 1..4 : wire.v.v[20 + i] = arg.address.ip[i]
           /\ wire.v.v[25] = arg.address.port \div 256
           /\ wire.v.v[26] = arg.address.port % 256
           /\ ((arg.id = <<42>> /\ arg.address = V4(127, 0, 0, 1, 8008))
                  => wire.v.v = Zeros(19) \o <<42, 127, 0, 0, 1, 31, 72>>)

NodeEncodingWitness ==
    /\ pc = "node_to_bencode"
    /\ arg.id = <<42>> /\ arg.address = V4(127, 0, 0, 1, 8008)
    /\ ~wire.panic /\ wire.v.v = Zeros(19) \o <<42, 127, 0, 0, 1, 31, 72>>

\* C9: Node::to_bencode fails exactly when the id needs more than 160 bits or
\* the address is not IPv4; when it succeeds the bytes hold the whole id and
\* the whole port, nothing is cut off.
NodeEncodingFailsExactly ==
    pc = "node_to_bencode"
        => /\ wire.panic <=> ~ValidNode(arg)
           /\ ~wire.panic =>
                /\ \A j \in 0..(2 * Len(arg.id)) :
                       ByteOf(arg.id, j) = IF j < 20 THEN wire.v.v[20 - j] ELSE 0
                /\ wire.v.v[25] * 256 + wire.v.v[26] = arg.address.port

NodeEncodingFailsExactlyWitness ==
    /\ pc = "node_to_bencode"
    /\ arg.id = Id2_160 /\ arg.address.fam = "V4"
    /\ wire.panic

\* C10: when the caller's fields of a Query or Response contain "id", the
\* nested map has one "id" entry, the encoded sender and not the caller's
\* value, as many entries as there are field keys other than "id" plus one,
\* and every other field is there as the caller gave it.
IdWins ==
    (pc = "package_to_bencode" /\ arg.payload.kind \in {"Query", "Response"}
        /\ STR_id \in DOMAIN arg.payload.fields /\ ~wire.panic)
        => LET f == arg.payload.fields
           IN  /\ STR_id \in DOMAIN Nested
               /\ Nested[STR_id] = Node_to_bencode(arg.sender).v
               /\ Nested[STR_id].tag = "ByteString"
               /\ \/ Nested[STR_id].tag # VecU8_to_bencode(f[STR_id]).tag
                  \/ Nested[STR_id].v # VecU8_to_bencode(f[STR_id]).v
               /\ Cardinality(DOMAIN Nested) = Cardinality((DOMAIN f) \ {STR_id}) + 1
               /\ \A k \in (DOMAIN f) \ {STR_id} :
                      k \in DOMAIN Nested /\ Nested[k] = VecU8_to_bencode(f[k])

IdWinsWitness ==
    /\ pc = "package_to_bencode" /\ arg.payload.kind = "Query"
    /\ DOMAIN arg.payload.fields = {STR_id, <<97>>}
    /\ arg.payload.fields[STR_id] = <<1, 255>>
    /\ ~wire.panic
    /\ DOMAIN Nested = {STR_id, <<97>>}
    /\ Nested[STR_id] = ByteString(Zeros(19) \o <<42, 127, 0, 0, 1, 31, 72>>)

=============================================================================
